---------------------------- MODULE Spec2Model ----------------------------
(***************************************************************************)
(* Model of the aggregate lowering engine (compiler/calls.go), the map     *)
(* operation lowering (the compiler's map intrinsics file) and the error   *)
(* aggregation of the builder (builder/error.go).                          *)
(*                                                                         *)
(* LLVM types are trees: an elementary type is a leaf, a struct type has   *)
(* an ordered list of element types.  LLVM values are trees of the same    *)
(* shape whose leaves carry an identity, so that extractvalue/insertvalue  *)
(* and structural equality of values can be computed.                      *)
(***************************************************************************)
EXTENDS Integers, Sequences, FiniteSets, TLC

VARIABLES
    op,           \* the operation that ran last ("init" before any)
    panic,        \* "" or the message of the Go panic that ended the run
    v,            \* calls.go: the llvm.Value given to the lowering functions
    fragments,    \* calls.go: result of expandFormalParam
    fieldTypes,   \* calls.go: result of expandFormalParamType / flattenAggregateType
    offsets,      \* calls.go: result of the *Offsets functions
    param,        \* calls.go: result of collapseFormalParam
    fnName,       \* calls.go: the runtime function asked for
    args,         \* calls.go: the arguments given to createRuntimeCall
    emitted,      \* the call instructions the last operation emitted
    keyType,      \* map lowering: the go/types key type of the map
    nops,         \* map lowering: the number of map operations lowered so far
    live,         \* map lowering: the temporaries whose lifetime has not ended
    nextTemp,     \* map lowering: the number of the next temporary
    diagnostics,  \* map lowering: b.diagnostics, the errors recorded by addError
    ret,          \* map lowering: what the last map operation returned
    hash,         \* hashmapTopHash: the 32-bit hash given
    tophash,      \* hashmapTopHash: the result
    errs,         \* newMultiError: the slice of errors given
    result,       \* newMultiError: the error returned
    text          \* MultiError.Error: the text returned

lowerVars == <<v, fragments, fieldTypes, offsets, param>>
emitVars == <<fnName, args, emitted>>
mapVars == <<keyType, nops, live, nextTemp, diagnostics, ret>>
hashVars == <<hash, tophash>>
errVars == <<errs, result, text>>
vars == <<op, panic, lowerVars, emitVars, mapVars, hashVars, errVars>>

RECURSIVE TypesOfSize(_), TypeSeqsOfSize(_)
RECURSIVE Concat(_)
RECURSIVE BuildValue(_, _), BuildElems(_, _, _, _)
RECURSIVE ConstNull(_)
RECURSIVE SizeOf(_), AlignOf(_), FieldEnd(_, _)
RECURSIVE flattenAggregateType(_)
RECURSIVE flattenAggregateTypeOffsets(_)
RECURSIVE c_flattenAggregate(_)
RECURSIVE b_flattenAggregate(_)
RECURSIVE collapseFormalParamInternal(_, _), collapseStructFields(_, _, _, _)

(***************************************************************************)
(* Bounds of the model.                                                    *)
(***************************************************************************)
\* Largest number of nodes (struct nodes plus leaves) of an LLVM type.
MaxNodes == 6

(***************************************************************************)
(* LLVM types and values.                                                  *)
(***************************************************************************)
ElementaryKinds == {"i32", "ptr"}

ElementaryType(k) == [kind |-> k, elems |-> <<>>]
StructType(fs) == [kind |-> "struct", elems |-> fs]

\* t.TypeKind() == llvm.StructTypeKind
IsStructTypeKind(t) == t.kind = "struct"
\* t.StructElementTypes()
StructElementTypes(t) == t.elems

TypeSeqsOfSize(m) ==
    IF m = 0 THEN {<<>>}
    ELSE UNION { { <<t>> \o s : t \in TypesOfSize(k), s \in TypeSeqsOfSize(m - k) }
                 : k \in 1..m }

TypesOfSize(n) ==
    IF n = 1 THEN { ElementaryType(k) : k \in ElementaryKinds } \cup { StructType(<<>>) }
    ELSE { StructType(fs) : fs \in TypeSeqsOfSize(n - 1) }

LLVMTypesUpTo(n) == UNION { TypesOfSize(k) : k \in 1..n }

Concat(ss) == IF ss = <<>> THEN <<>> ELSE Head(ss) \o Concat(Tail(ss))

\* An elementary value carries its identity in bits; k tells an ordinary
\* value from the constants llvm.Undef and llvm.ConstNull.
Leaf(t, k, bits) == [type |-> t, k |-> k, bits |-> bits, elems |-> <<>>]
Agg(t, es) == [type |-> t, k |-> "agg", bits |-> 0, elems |-> es]

\* The value of type t whose leaves are numbered n, n+1, ... in declaration
\* order; next is the first number not used.
BuildElems(t, i, n, acc) ==
    IF i > Len(t.elems) THEN [value |-> Agg(t, acc), next |-> n]
    ELSE LET r == BuildValue(t.elems[i], n)
         IN BuildElems(t, i + 1, r.next, Append(acc, r.value))

BuildValue(t, n) ==
    IF IsStructTypeKind(t) THEN BuildElems(t, 1, n, <<>>)
    ELSE [value |-> Leaf(t, "val", n), next |-> n + 1]

ValueOf(t, n) == BuildValue(t, n).value

\* llvm.ConstNull(t)
ConstNull(t) ==
    IF IsStructTypeKind(t)
    THEN Agg(t, [i \in 1..Len(t.elems) |-> ConstNull(t.elems[i])])
    ELSE Leaf(t, "null", 0)

\* llvm.Undef(t), used for elementary types only
Undef(t) == Leaf(t, "undef", 0)

\* builder.CreateExtractValue(agg, i, ""), i counted from 0 as in the code
CreateExtractValue(agg, i) == agg.elems[i + 1]

\* builder.CreateInsertValue(agg, elt, i, ""), i counted from 0 as in the code
CreateInsertValue(agg, elt, i) == [agg EXCEPT !.elems[i + 1] = elt]

(***************************************************************************)
(* The target data layout: sizes, alignments and element offsets.          *)
(***************************************************************************)
AlignUp(n, a) == ((n + a - 1) \div a) * a

MaxOf(S) == CHOOSE x \in S : \A y \in S : y <= x

AlignOf(t) ==
    IF IsStructTypeKind(t)
    THEN MaxOf({1} \cup { AlignOf(t.elems[i]) : i \in 1..Len(t.elems) })
    ELSE IF t.kind = "ptr" THEN 8 ELSE 4

\* The offset just past element number i (from 1) of struct type t.
FieldEnd(t, i) ==
    IF i = 0 THEN 0
    ELSE AlignUp(FieldEnd(t, i - 1), AlignOf(t.elems[i])) + SizeOf(t.elems[i])

SizeOf(t) ==
    IF IsStructTypeKind(t)
    THEN AlignUp(FieldEnd(t, Len(t.elems)), AlignOf(t))
    ELSE IF t.kind = "ptr" THEN 8 ELSE 4

\* targetData.ElementOffset(t, fieldIndex), fieldIndex counted from 0
ElementOffset(t, fieldIndex) ==
    AlignUp(FieldEnd(t, fieldIndex), AlignOf(t.elems[fieldIndex + 1]))

(***************************************************************************)
(* compiler/calls.go                                                       *)
(***************************************************************************)
MaxFieldsPerParam == 3

Ok(vals) == [panic |-> "", vals |-> vals]
Panicked(msg) == [panic |-> msg, vals |-> <<>>]

flattenAggregateType(t) ==
    IF IsStructTypeKind(t)
    THEN Concat([i \in 1..Len(StructElementTypes(t)) |->
                    flattenAggregateType(StructElementTypes(t)[i])])
    ELSE <<t>>

expandFormalParamType(t) ==
    IF IsStructTypeKind(t)
    THEN LET fields == flattenAggregateType(t)
         IN IF Len(fields) <= MaxFieldsPerParam THEN fields ELSE <<t>>
    ELSE <<t>>

\* The offsets are uint64 in the code; those of the types modelled stay far
\* below 2^64, so no addition wraps.

\* Mutant: the field's own offset is not added to the sub-offsets.
flattenAggregateTypeOffsets_noAdd(t) ==
    IF IsStructTypeKind(t)
    THEN Concat([i \in 1..Len(StructElementTypes(t)) |->
                    flattenAggregateTypeOffsets(StructElementTypes(t)[i])])
    ELSE <<0>>

flattenAggregateTypeOffsets(t) ==
    IF IsStructTypeKind(t)
    THEN Concat([i \in 1..Len(StructElementTypes(t)) |->
            LET suboffsets == flattenAggregateTypeOffsets(StructElementTypes(t)[i])
                offset == ElementOffset(t, i - 1)
            IN [j \in 1..Len(suboffsets) |-> suboffsets[j] + offset]])
    ELSE <<0>>

expandFormalParamOffsets(t) ==
    IF IsStructTypeKind(t)
    THEN LET fields == flattenAggregateTypeOffsets(t)
         IN IF Len(fields) <= MaxFieldsPerParam THEN fields ELSE <<0>>
    ELSE <<0>>

c_flattenAggregate(x) ==
    IF IsStructTypeKind(x.type)
    THEN Concat([i \in 1..Len(StructElementTypes(x.type)) |->
                    c_flattenAggregate(CreateExtractValue(x, i - 1))])
    ELSE <<x>>

\* Mutant: the extracted fields are not flattened further.
b_flattenAggregate_shallow(x) ==
    IF IsStructTypeKind(x.type)
    THEN [i \in 1..Len(StructElementTypes(x.type)) |-> CreateExtractValue(x, i - 1)]
    ELSE <<x>>

b_flattenAggregate(x) ==
    IF IsStructTypeKind(x.type)
    THEN Concat([i \in 1..Len(StructElementTypes(x.type)) |->
                    b_flattenAggregate(CreateExtractValue(x, i - 1))])
    ELSE <<x>>

c_expandFormalParam(x) ==
    IF IsStructTypeKind(x.type)
    THEN LET fts == flattenAggregateType(x.type)
         IN IF Len(fts) <= MaxFieldsPerParam
            THEN LET fields == c_flattenAggregate(x)
                 IN IF Len(fields) # Len(fts)
                    THEN Panicked("type and value param lowering don't match")
                    ELSE Ok(fields)
            ELSE Ok(<<x>>)
    ELSE Ok(<<x>>)

\* Mutant: the bound is compared with < instead of <=.
b_expandFormalParam_lt(x) ==
    IF IsStructTypeKind(x.type)
    THEN LET fts == flattenAggregateType(x.type)
         IN IF Len(fts) < MaxFieldsPerParam
            THEN LET fields == b_flattenAggregate(x)
                 IN IF Len(fields) # Len(fts)
                    THEN Panicked("type and value param lowering don't match")
                    ELSE Ok(fields)
            ELSE Ok(<<x>>)
    ELSE Ok(<<x>>)

b_expandFormalParam(x) ==
    IF IsStructTypeKind(x.type)
    THEN LET fts == flattenAggregateType(x.type)
         IN IF Len(fts) <= MaxFieldsPerParam
            THEN LET fields == b_flattenAggregate(x)
                 IN IF Len(fields) # Len(fts)
                    THEN Panicked("type and value param lowering don't match")
                    ELSE Ok(fields)
            ELSE Ok(<<x>>)
    ELSE Ok(<<x>>)

\* The result of collapseFormalParamInternal: the value, the remaining fields,
\* and whether fields[0] was read from an empty slice (a Go runtime panic).
Collapsed(value, remaining) == [value |-> value, remaining |-> remaining, ok |-> TRUE]
OutOfRange(t) == [value |-> ConstNull(t), remaining |-> <<>>, ok |-> FALSE]

\* Mutant: "fields = remaining" is missing, every field reads the same prefix.
collapseStructFields_noAdvance(t, i, value, fields) ==
    IF i > Len(StructElementTypes(t)) THEN Collapsed(value, fields)
    ELSE LET r == collapseFormalParamInternal(StructElementTypes(t)[i], fields)
         IN IF ~r.ok THEN OutOfRange(t)
            ELSE collapseStructFields(t, i + 1,
                     CreateInsertValue(value, r.value, i - 1), fields)

\* The loop over t.StructElementTypes() from index i (counted from 1).
collapseStructFields(t, i, value, fields) ==
    IF i > Len(StructElementTypes(t)) THEN Collapsed(value, fields)
    ELSE LET r == collapseFormalParamInternal(StructElementTypes(t)[i], fields)
         IN IF ~r.ok THEN OutOfRange(t)
            ELSE collapseStructFields(t, i + 1,
                     CreateInsertValue(value, r.value, i - 1), r.remaining)

collapseFormalParamInternal(t, fields) ==
    IF IsStructTypeKind(t) /\ Len(flattenAggregateType(t)) <= MaxFieldsPerParam
    THEN collapseStructFields(t, 1, ConstNull(t), fields)
    ELSE IF fields = <<>> THEN OutOfRange(t)
         ELSE Collapsed(fields[1], Tail(fields))

collapseFormalParam(t, fields) ==
    LET r == collapseFormalParamInternal(t, fields)
    IN IF ~r.ok THEN [panic |-> "index out of range", value |-> r.value]
       ELSE IF Len(r.remaining) # 0
            THEN [panic |-> "failed to expand back all fields", value |-> r.value]
            ELSE [panic |-> "", value |-> r.value]

(***************************************************************************)
(* The lowering functions applied to one value.                            *)
(***************************************************************************)
NoValue == Leaf(ElementaryType("i32"), "none", 0)
NoError == [pos |-> 0, msg |-> ""]
NoType == [kind |-> "none", elems |-> <<>>]

\* The values of the variables of the parts a specification does not run.
IdleLower ==
    /\ v = NoValue /\ fragments = <<>> /\ fieldTypes = <<>>
    /\ offsets = <<>> /\ param = NoValue
IdleEmit == fnName = "" /\ args = <<>> /\ emitted = <<>>
IdleMap ==
    /\ keyType = NoType /\ nops = 0 /\ live = {} /\ nextTemp = 0
    /\ diagnostics = <<>> /\ ret = [value |-> NoValue, err |-> NoError]
IdleHash == hash = [hi |-> 0, lo |-> 0] /\ tophash = 0
NilError == [dyn |-> "nil", Errs |-> <<>>, pos |-> 0, msg |-> ""]
IdleErr == errs = <<>> /\ result = NilError /\ text = ""

InitLower ==
    /\ \E t \in LLVMTypesUpTo(MaxNodes) : v = ValueOf(t, 1)
    /\ op = "init"
    /\ panic = ""
    /\ fragments = <<>>
    /\ fieldTypes = <<>>
    /\ offsets = <<>>
    /\ param = NoValue
    /\ IdleEmit /\ IdleMap /\ IdleHash /\ IdleErr

FlattenAggregateType ==
    /\ op = "init"
    /\ op' = "flattenAggregateType"
    /\ fieldTypes' = flattenAggregateType(v.type)
    /\ UNCHANGED <<panic, v, fragments, offsets, param, emitVars, mapVars, hashVars, errVars>>

ExpandFormalParamType ==
    /\ op = "init"
    /\ op' = "expandFormalParamType"
    /\ fieldTypes' = expandFormalParamType(v.type)
    /\ UNCHANGED <<panic, v, fragments, offsets, param, emitVars, mapVars, hashVars, errVars>>

FlattenAggregateTypeOffsets ==
    /\ op = "init"
    /\ op' = "flattenAggregateTypeOffsets"
    /\ offsets' = flattenAggregateTypeOffsets(v.type)
    /\ UNCHANGED <<panic, v, fragments, fieldTypes, param, emitVars, mapVars, hashVars, errVars>>

ExpandFormalParamOffsets ==
    /\ op = "init"
    /\ op' = "expandFormalParamOffsets"
    /\ offsets' = expandFormalParamOffsets(v.type)
    /\ UNCHANGED <<panic, v, fragments, fieldTypes, param, emitVars, mapVars, hashVars, errVars>>

FlattenAggregate ==
    /\ op = "init"
    /\ \E variant \in {"Compiler", "builder"} :
         /\ op' = variant \o ".flattenAggregate"
         /\ fragments' = IF variant = "Compiler" THEN c_flattenAggregate(v)
                         ELSE b_flattenAggregate(v)
    /\ UNCHANGED <<panic, v, fieldTypes, offsets, param, emitVars, mapVars, hashVars, errVars>>

ExpandFormalParam ==
    /\ op = "init"
    /\ \E variant \in {"Compiler", "builder"} :
         LET r == IF variant = "Compiler" THEN c_expandFormalParam(v)
                  ELSE b_expandFormalParam(v)
         IN /\ op' = variant \o ".expandFormalParam"
            /\ panic' = r.panic
            /\ fragments' = r.vals
    /\ UNCHANGED <<v, fieldTypes, offsets, param, emitVars, mapVars, hashVars, errVars>>

Expanded == op \in {"Compiler.expandFormalParam", "builder.expandFormalParam"}

\* The receiving side of a call: the fragments are collapsed back.
CollapseFormalParam ==
    /\ Expanded
    /\ panic = ""
    /\ LET r == collapseFormalParam(v.type, fragments)
       IN /\ op' = "collapseFormalParam"
          /\ panic' = r.panic
          /\ param' = r.value
    /\ UNCHANGED <<v, fragments, fieldTypes, offsets, emitVars, mapVars, hashVars, errVars>>

NextLower ==
    \/ FlattenAggregateType
    \/ ExpandFormalParamType
    \/ FlattenAggregateTypeOffsets
    \/ ExpandFormalParamOffsets
    \/ FlattenAggregate
    \/ ExpandFormalParam
    \/ CollapseFormalParam

SpecLower == InitLower /\ [][NextLower]_vars

(***************************************************************************)
(* Properties of the lowering functions.                                   *)
(***************************************************************************)
RECURSIVE LeafPaths(_), TypeAt(_, _), ValueAt(_, _), PathOffset(_, _)

\* The paths (field indices from 1) to the non-struct leaves of t, in
\* declaration order.
LeafPaths(t) ==
    IF IsStructTypeKind(t)
    THEN Concat([i \in 1..Len(t.elems) |->
            LET sub == LeafPaths(t.elems[i])
            IN [j \in 1..Len(sub) |-> <<i>> \o sub[j]]])
    ELSE << <<>> >>

TypeAt(t, p) == IF p = <<>> THEN t ELSE TypeAt(t.elems[Head(p)], Tail(p))
ValueAt(x, p) == IF p = <<>> THEN x ELSE ValueAt(x.elems[Head(p)], Tail(p))

\* The sum of the element offsets of the enclosing struct fields along p.
PathOffset(t, p) ==
    IF p = <<>> THEN 0
    ELSE ElementOffset(t, Head(p) - 1) + PathOffset(t.elems[Head(p)], Tail(p))

NumLeaves(t) == Len(LeafPaths(t))
LeafTypes(t) == [i \in 1..NumLeaves(t) |-> TypeAt(t, LeafPaths(t)[i])]
LeafValues(x) == [i \in 1..NumLeaves(x.type) |-> ValueAt(x, LeafPaths(x.type)[i])]
HasNestedStruct(t) ==
    IsStructTypeKind(t) /\ \E i \in 1..Len(t.elems) : IsStructTypeKind(t.elems[i])

\* C1: collapsing the expansion of a value gives the value back, with no
\* field left over and no panic, for every value of every type.
C1_RoundTrip ==
    op = "collapseFormalParam" => (panic = "" /\ param = v)

\* C1 witness: a nested struct of three leaves was expanded and collapsed.
C1_Witness ==
    /\ op = "collapseFormalParam"
    /\ HasNestedStruct(v.type)
    /\ Len(fragments) = 3
    /\ param = v

\* C2: a struct is expanded into its leaves exactly when its recursively
\* flattened field count is <= MaxFieldsPerParam, and is passed whole above;
\* expandFormalParamType decides the same way.
C2_Bound ==
    /\ (Expanded /\ IsStructTypeKind(v.type)) =>
          /\ panic = ""
          /\ (Len(fragments) > 1 => NumLeaves(v.type) <= 3)
          /\ (NumLeaves(v.type) = 3 => fragments = LeafValues(v))
          /\ (NumLeaves(v.type) >= 4 => fragments = <<v>>)
    /\ (op = "expandFormalParamType" /\ IsStructTypeKind(v.type)) =>
          fieldTypes = IF NumLeaves(v.type) <= 3 THEN LeafTypes(v.type)
                       ELSE <<v.type>>

\* C2 witness: a struct of three top-level fields and four leaves was passed
\* whole.
C2_Witness ==
    /\ op = "builder.expandFormalParam"
    /\ IsStructTypeKind(v.type)
    /\ Len(v.type.elems) = 3
    /\ NumLeaves(v.type) = 4
    /\ fragments = <<v>>

\* C7 as stated: the Flattener returns as many fields as expandFormalParam
\* returns values, for every type.
C7_Original ==
    Expanded => Len(fragments) = Len(flattenAggregateType(v.type))

\* C7 as amended: flattenAggregate agrees in length with flattenAggregateType
\* and expandFormalParam with expandFormalParamType for every type, the
\* mismatch panic is never reached, and the Flattener's count equals the
\* number of expanded values whenever it is <= MaxFieldsPerParam.
C7_Amended ==
    /\ panic # "type and value param lowering don't match"
    /\ op \in {"Compiler.flattenAggregate", "builder.flattenAggregate"} =>
          Len(fragments) = Len(flattenAggregateType(v.type))
    /\ Expanded =>
          /\ Len(fragments) = Len(expandFormalParamType(v.type))
          /\ (Len(flattenAggregateType(v.type)) <= MaxFieldsPerParam =>
                Len(fragments) = Len(flattenAggregateType(v.type)))

\* C7 witness: a nested struct within the bound was expanded.
C7_Witness ==
    /\ op = "builder.expandFormalParam"
    /\ HasNestedStruct(v.type)
    /\ Len(fragments) = 3
    /\ Len(flattenAggregateType(v.type)) = 3

\* C10: the offsets have the length and order of the flattened fields, each
\* is the sum of the element offsets along the path to its leaf, and the
\* expanded offsets have the length of the expanded types.
C10_Offsets ==
    /\ op = "flattenAggregateTypeOffsets" =>
          /\ Len(offsets) = Len(flattenAggregateType(v.type))
          /\ flattenAggregateType(v.type) = LeafTypes(v.type)
          /\ offsets = [i \in 1..NumLeaves(v.type) |->
                            PathOffset(v.type, LeafPaths(v.type)[i])]
          /\ (~IsStructTypeKind(v.type) => offsets = <<0>>)
    /\ op = "expandFormalParamOffsets" =>
          /\ Len(offsets) = Len(expandFormalParamType(v.type))
          /\ (IsStructTypeKind(v.type) /\ NumLeaves(v.type) > 3 => offsets = <<0>>)

\* C10 witness: the offsets of a struct holding a nested struct whose leaves
\* lie at non-zero offsets of both levels.
C10_Witness ==
    /\ op = "flattenAggregateTypeOffsets"
    /\ Len(v.type.elems) = 2
    /\ offsets = <<0, 4, 8>>

(***************************************************************************)
(* The Runtime Call Emitter (compiler/calls.go, createRuntimeCall and      *)
(* createCall).                                                            *)
(***************************************************************************)
\* Largest number of nodes of the type of a runtime call argument.
MaxArgNodes == 5
\* Largest number of arguments given to createRuntimeCall.
MaxArgs == 2

i8ptrType == ElementaryType("ptr")

\* llvm.ConstPointerNull(t)
ConstPointerNull(t) == Leaf(t, "null", 0)

\* The runtime package of the program being compiled: the members of the
\* package, whether each one has been declared in the LLVM module, and
\* whether it is exported.  A name outside the domain is no member.
HashmapFns == {"hashmapStringGet", "hashmapStringSet", "hashmapStringDelete",
               "hashmapBinaryGet", "hashmapBinarySet", "hashmapBinaryDelete"}

RuntimeMembers ==
    [n \in HashmapFns \cup {"exportedFn", "notInIR"} |->
        [inIR |-> n # "notInIR", exported |-> n = "exportedFn"]]

\* The names createRuntimeCall is asked for.
FnNames == {"hashmapStringGet", "exportedFn", "notInIR", "missingFn"}

\* runtimePkg.Members[fnName] != nil
IsMember(n) == n \in DOMAIN RuntimeMembers
\* !b.mod.NamedFunction("runtime." + fnName).IsNil(), !fn.LLVMFn.IsNil()
InModule(n) == IsMember(n) /\ RuntimeMembers[n].inIR
\* fn.IsExported()
IsExported(n) == RuntimeMembers[n].exported

\* b.CreateCall(fn, args, name): the instruction emitted
CallInstr(fn, as) == [fn |-> fn, args |-> as]

\* What an emitter leaves: the panic, if any, and the instructions emitted.
EmitPanic(msg) == [panic |-> msg, calls |-> <<>>]
Emit(calls) == [panic |-> "", calls |-> calls]

\* The first panic among the results rs, "" when there is none.
FirstPanic(rs) ==
    IF \E i \in 1..Len(rs) : rs[i].panic # ""
    THEN rs[CHOOSE i \in 1..Len(rs) :
                /\ rs[i].panic # ""
                /\ \A j \in 1..(i - 1) : rs[j].panic = ""].panic
    ELSE ""

c_createCall(fn, as) ==
    LET rs == [i \in 1..Len(as) |-> c_expandFormalParam(as[i])]
        expanded == Concat([i \in 1..Len(as) |-> rs[i].vals])
    IN IF FirstPanic(rs) # "" THEN EmitPanic(FirstPanic(rs))
       ELSE Emit(<<CallInstr(fn, expanded)>>)

b_createCall(fn, as) ==
    LET rs == [i \in 1..Len(as) |-> b_expandFormalParam(as[i])]
        expanded == Concat([i \in 1..Len(as) |-> rs[i].vals])
    IN IF FirstPanic(rs) # "" THEN EmitPanic(FirstPanic(rs))
       ELSE Emit(<<CallInstr(fn, expanded)>>)

c_createRuntimeCall(name, as) ==
    IF ~IsMember(name) THEN EmitPanic("trying to call runtime." \o name)
    ELSE IF ~InModule(name)
    THEN EmitPanic("function " \o name \o " does not appear in LLVM IR")
    ELSE IF ~IsExported(name)
    THEN c_createCall("runtime." \o name,
             as \o <<Undef(i8ptrType), ConstPointerNull(i8ptrType)>>)
    ELSE c_createCall("runtime." \o name, as)

b_createRuntimeCall(name, as) ==
    LET fullName == "runtime." \o name
    IN IF ~InModule(name)
       THEN EmitPanic("trying to call non-existing function: " \o fullName)
       ELSE b_createCall(fullName,
                as \o <<Undef(i8ptrType), ConstPointerNull(i8ptrType)>>)

\* The map handle: a pointer no lowered value shares a leaf with.
MapHandle == Leaf(i8ptrType, "val", 0)

RECURSIVE SeqsUpTo(_, _)
SeqsUpTo(S, n) ==
    IF n = 0 THEN {<<>>}
    ELSE SeqsUpTo(S, n - 1) \cup
         { Append(s, x) : s \in { q \in SeqsUpTo(S, n - 1) : Len(q) = n - 1 }, x \in S }

InitEmit ==
    /\ \E t \in LLVMTypesUpTo(MaxArgNodes) : v = ValueOf(t, 1)
    /\ op = "init"
    /\ panic = ""
    /\ fragments = <<>> /\ fieldTypes = <<>> /\ offsets = <<>> /\ param = NoValue
    /\ IdleEmit /\ IdleMap /\ IdleHash /\ IdleErr

CompilerCreateRuntimeCall ==
    /\ op = "init"
    /\ \E n \in FnNames, as \in SeqsUpTo({v, MapHandle}, MaxArgs) :
         LET r == c_createRuntimeCall(n, as)
         IN /\ fnName' = n
            /\ args' = as
            /\ panic' = r.panic
            /\ emitted' = r.calls
    /\ op' = "Compiler.createRuntimeCall"
    /\ UNCHANGED <<lowerVars, mapVars, hashVars, errVars>>

BuilderCreateRuntimeCall ==
    /\ op = "init"
    /\ \E n \in FnNames, as \in SeqsUpTo({v, MapHandle}, MaxArgs) :
         LET r == b_createRuntimeCall(n, as)
         IN /\ fnName' = n
            /\ args' = as
            /\ panic' = r.panic
            /\ emitted' = r.calls
    /\ op' = "builder.createRuntimeCall"
    /\ UNCHANGED <<lowerVars, mapVars, hashVars, errVars>>

NextEmit == CompilerCreateRuntimeCall \/ BuilderCreateRuntimeCall

SpecEmit == InitEmit /\ [][NextEmit]_vars

\* The in-order concatenation of the expansions of the arguments.
ExpandAll(as) == Concat([i \in 1..Len(as) |-> b_expandFormalParam(as[i]).vals])

RuntimeCalled == op \in {"Compiler.createRuntimeCall", "builder.createRuntimeCall"}

\* C3: every call emitted by either createRuntimeCall, for every runtime
\* function that is found, passes the expanded arguments in order followed by
\* the undefined context placeholder and the null coroutine handle; when the
\* function is not found the emitter panics and emits nothing.
C3_TrailingArgs ==
    RuntimeCalled =>
        IF InModule(fnName)
        THEN /\ panic = ""
             /\ emitted = <<CallInstr("runtime." \o fnName,
                               ExpandAll(args) \o
                               <<Undef(i8ptrType), ConstPointerNull(i8ptrType)>>)>>
        ELSE panic # "" /\ emitted = <<>>

(***************************************************************************)
(* Map operation lowering: go/types key types.                             *)
(***************************************************************************)
\* Largest number of nodes of a key type.
MaxKeyNodes == 4
\* Largest number of map operations lowered in one unit.
MaxOps == 3

RECURSIVE GoTypesOfSize(_), GoTypeSeqsOfSize(_)
RECURSIVE hashmapIsBinaryKey(_)
RECURSIVE TypeString(_), JoinFields(_)

\* *types.Basic kinds, and the kinds without component types.
BasicKinds == {"string", "bool", "int", "float64"}
AtomKinds == BasicKinds \cup {"pointer", "interface"}

GoAtom(k) == [kind |-> k, elems |-> <<>>]
GoStruct(fs) == [kind |-> "struct", elems |-> fs]
GoArray(e) == [kind |-> "array", elems |-> <<e>>]
GoNamed(u) == [kind |-> "named", elems |-> <<u>>]

GoTypeSeqsOfSize(m) ==
    IF m = 0 THEN {<<>>}
    ELSE UNION { { <<t>> \o q : t \in GoTypesOfSize(k), q \in GoTypeSeqsOfSize(m - k) }
                 : k \in 1..m }

\* The underlying type of a named type is never a named type.
GoTypesOfSize(n) ==
    IF n = 1 THEN { GoAtom(k) : k \in AtomKinds } \cup { GoStruct(<<>>) }
    ELSE { GoStruct(fs) : fs \in GoTypeSeqsOfSize(n - 1) }
         \cup { GoArray(e) : e \in GoTypesOfSize(n - 1) }
         \cup { GoNamed(u) : u \in { t \in GoTypesOfSize(n - 1) : t.kind # "named" } }

KeyTypes == UNION { GoTypesOfSize(k) : k \in 1..MaxKeyNodes }

\* t.Underlying()
Underlying(t) == IF t.kind = "named" THEN t.elems[1] ELSE t

\* t, ok := keyType.(*types.Basic); ok && t.Info()&types.IsString != 0
IsBasicString(t) == t.kind \in BasicKinds /\ t.kind = "string"

\* t.Info()&(types.IsBoolean|types.IsInteger) != 0, for a *types.Basic
IsBooleanOrInteger(t) == t.kind \in {"bool", "int"}

JoinFields(fs) ==
    IF fs = <<>> THEN ""
    ELSE IF Len(fs) = 1 THEN "f " \o TypeString(fs[1])
    ELSE "f " \o TypeString(fs[1]) \o "; " \o JoinFields(Tail(fs))

\* keyType.String(): a named type prints as its name, any other type as its
\* structure.
TypeString(t) ==
    CASE t.kind = "named" -> "main.T"
      [] t.kind = "struct" -> "struct{" \o JoinFields(t.elems) \o "}"
      [] t.kind = "array" -> "[1]" \o TypeString(t.elems[1])
      [] t.kind = "pointer" -> "*int"
      [] t.kind = "interface" -> "interface{}"
      [] OTHER -> t.kind

hashmapIsBinaryKey(t) ==
    CASE t.kind \in BasicKinds -> IsBooleanOrInteger(t)
      [] t.kind = "pointer" -> TRUE
      [] t.kind = "struct" ->
            \A i \in 1..Len(t.elems) : hashmapIsBinaryKey(Underlying(t.elems[i]))
      [] t.kind = "array" -> hashmapIsBinaryKey(t.elems[1])
      [] t.kind = "named" -> hashmapIsBinaryKey(Underlying(t))
      [] OTHER -> FALSE

(***************************************************************************)
(* Map operation lowering: createMapLookup, createMapUpdate and            *)
(* createMapDelete.  The builder is the record of what the operations      *)
(* change: the live temporaries, the calls emitted, the diagnostics.       *)
(***************************************************************************)
RECURSIVE getLLVMType(_)

\* b.getLLVMType(t): the LLVM type of a Go type.  An array is not a struct
\* for the lowering of parameters and is kept as a leaf.
getLLVMType(t) ==
    CASE t.kind = "named" -> getLLVMType(Underlying(t))
      [] t.kind = "struct" ->
            StructType([i \in 1..Len(t.elems) |-> getLLVMType(t.elems[i])])
      [] t.kind = "string" ->
            StructType(<<ElementaryType("ptr"), ElementaryType("i32")>>)
      [] t.kind = "interface" ->
            StructType(<<ElementaryType("ptr"), ElementaryType("ptr")>>)
      [] t.kind = "pointer" -> ElementaryType("ptr")
      [] t.kind = "bool" -> ElementaryType("i1")
      [] t.kind = "float64" -> ElementaryType("double")
      [] t.kind = "array" -> ElementaryType("array")
      [] OTHER -> ElementaryType("i32")

\* The type of the values of the map.
MapValueType == ElementaryType("i32")

Builder == [live |-> live, nextTemp |-> nextTemp, emitted |-> <<>>,
            panic |-> "", diagnostics |-> diagnostics]

\* b.createTemporaryAlloca(t, name): a new temporary whose lifetime starts.
createTemporaryAlloca(b, name) ==
    [b |-> [b EXCEPT !.live = @ \cup {[id |-> b.nextTemp, name |-> name]},
                     !.nextTemp = @ + 1],
     ptr |-> [type |-> i8ptrType, k |-> name, bits |-> b.nextTemp, elems |-> <<>>]]

\* b.emitLifetimeEnd(ptr, size)
emitLifetimeEnd(b, ptr) ==
    [b EXCEPT !.live = @ \ {[id |-> ptr.bits, name |-> ptr.k]}]

\* b.makeError(pos, msg)
makeError(pos, msg) == [pos |-> pos, msg |-> msg]

\* b.addError(pos, msg)
addError(b, pos, msg) ==
    [b EXCEPT !.diagnostics = Append(@, makeError(pos, msg))]

\* b.createRuntimeCall(fnName, params, "") on the builder record.
RuntimeCall(b, name, params) ==
    LET r == b_createRuntimeCall(name, params)
    IN [b EXCEPT !.emitted = @ \o r.calls, !.panic = r.panic]

UnsupportedKeyMsg(t) ==
    "only strings, bools, ints, pointers or structs of bools/ints are supported as map keys, but got: "
        \o TypeString(t)

Returned(b, value, err) == [b |-> b, value |-> value, err |-> err]

\* Lines 43 to 55 of createMapLookup: load the value, end the lifetime of the
\* value temporary, shape the result.
LookupResult(b, mapValuePtr, commaOk) ==
    IF b.panic # "" THEN Returned(b, NoValue, NoError)
    ELSE LET mapValue == Leaf(MapValueType, "load", mapValuePtr.bits)
             commaOkValue == Leaf(ElementaryType("i1"), "call", 0)
             tuple == Agg(StructType(<<MapValueType, ElementaryType("i1")>>),
                          <<mapValue, commaOkValue>>)
         IN Returned(emitLifetimeEnd(b, mapValuePtr),
                     IF commaOk THEN tuple ELSE mapValue, NoError)

createMapLookup(b, kt, m, key, commaOk, pos) ==
    LET value == createTemporaryAlloca(b, "hashmap.value")
    IN IF IsBasicString(kt)
       THEN LookupResult(RuntimeCall(value.b, "hashmapStringGet",
                                     <<m, key, value.ptr>>),
                         value.ptr, commaOk)
       ELSE IF hashmapIsBinaryKey(kt)
       THEN LET mapKey == createTemporaryAlloca(value.b, "hashmap.key")
                called == RuntimeCall(mapKey.b, "hashmapBinaryGet",
                                      <<m, mapKey.ptr, value.ptr>>)
            IN LookupResult(IF called.panic # "" THEN called
                            ELSE emitLifetimeEnd(called, mapKey.ptr),
                            value.ptr, commaOk)
       ELSE Returned(value.b, NoValue, makeError(pos, UnsupportedKeyMsg(kt)))

createMapUpdate(b, kt0, m, key, val, pos) ==
    LET value == createTemporaryAlloca(b, "hashmap.value")
        kt == Underlying(kt0)
        done ==
            IF IsBasicString(kt)
            THEN RuntimeCall(value.b, "hashmapStringSet", <<m, key, value.ptr>>)
            ELSE IF hashmapIsBinaryKey(kt)
            THEN LET mapKey == createTemporaryAlloca(value.b, "hashmap.key")
                     called == RuntimeCall(mapKey.b, "hashmapBinarySet",
                                           <<m, mapKey.ptr, value.ptr>>)
                 IN IF called.panic # "" THEN called
                    ELSE emitLifetimeEnd(called, mapKey.ptr)
            ELSE addError(value.b, pos, UnsupportedKeyMsg(kt))
    IN IF done.panic # "" THEN Returned(done, NoValue, NoError)
       ELSE Returned(emitLifetimeEnd(done, value.ptr), NoValue, NoError)

createMapDelete(b, kt0, m, key, pos) ==
    LET kt == Underlying(kt0)
    IN IF IsBasicString(kt)
       THEN Returned(RuntimeCall(b, "hashmapStringDelete", <<m, key>>),
                     NoValue, NoError)
       ELSE IF hashmapIsBinaryKey(kt)
       THEN LET mapKey == createTemporaryAlloca(b, "hashmap.key")
                called == RuntimeCall(mapKey.b, "hashmapBinaryDelete",
                                      <<m, mapKey.ptr>>)
            IN Returned(IF called.panic # "" THEN called
                        ELSE emitLifetimeEnd(called, mapKey.ptr),
                        NoValue, NoError)
       ELSE Returned(b, NoValue, makeError(pos, UnsupportedKeyMsg(kt)))

\* The unit under lowering has one map; its key type and the key value of
\* its operations are fixed at the start.
InitMap ==
    /\ keyType \in KeyTypes
    /\ v = ValueOf(getLLVMType(keyType), 1)
    /\ op = "init"
    /\ panic = ""
    /\ fragments = <<>> /\ fieldTypes = <<>> /\ offsets = <<>> /\ param = NoValue
    /\ nops = 0 /\ live = {} /\ nextTemp = 0 /\ diagnostics = <<>>
    /\ ret = [value |-> NoValue, err |-> NoError]
    /\ IdleEmit /\ IdleHash /\ IdleErr

\* The source position of the next instruction of the unit.
NextPos == nops + 1

\* The value stored by a map update.
StoredValue == Leaf(MapValueType, "val", 0)

\* The builder and the result of a map operation become the next state.
Lowered(name, r) ==
    /\ op' = name
    /\ nops' = nops + 1
    /\ panic' = r.b.panic
    /\ live' = r.b.live
    /\ nextTemp' = r.b.nextTemp
    /\ emitted' = r.b.emitted
    /\ diagnostics' = r.b.diagnostics
    /\ ret' = [value |-> r.value, err |-> r.err]
    /\ UNCHANGED <<keyType, lowerVars, fnName, args, hashVars, errVars>>

CreateMapLookup ==
    /\ nops < MaxOps /\ panic = ""
    /\ \E commaOk \in BOOLEAN :
         Lowered("createMapLookup",
                 createMapLookup(Builder, keyType, MapHandle, v, commaOk, NextPos))

CreateMapUpdate ==
    /\ nops < MaxOps /\ panic = ""
    /\ Lowered("createMapUpdate",
               createMapUpdate(Builder, keyType, MapHandle, v, StoredValue, NextPos))

CreateMapDelete ==
    /\ nops < MaxOps /\ panic = ""
    /\ Lowered("createMapDelete",
               createMapDelete(Builder, keyType, MapHandle, v, NextPos))

NextMap == CreateMapLookup \/ CreateMapUpdate \/ CreateMapDelete

SpecMap == InitMap /\ [][NextMap]_vars

(***************************************************************************)
(* Properties of the map operation lowering.                               *)
(***************************************************************************)
RECURSIVE IsBinaryComparable(_)

MapOps == {"createMapLookup", "createMapUpdate", "createMapDelete"}

\* A bool, an integer, a pointer, or a struct or array made of such types
\* only, named or not.
IsBinaryComparable(t) ==
    LET u == Underlying(t)
    IN \/ u.kind \in {"bool", "int", "pointer"}
       \/ u.kind = "struct" /\ \A i \in 1..Len(u.elems) : IsBinaryComparable(u.elems[i])
       \/ u.kind = "array" /\ IsBinaryComparable(u.elems[1])

\* The key class of a key type.
Classify(t) ==
    IF Underlying(t).kind = "string" THEN "String"
    ELSE IF IsBinaryComparable(t) THEN "Binary"
    ELSE "Unsupported"

OpSuffix(o) ==
    CASE o = "createMapLookup" -> "Get"
      [] o = "createMapUpdate" -> "Set"
      [] o = "createMapDelete" -> "Delete"

\* C4: each of the three operations takes the path of the class of the key
\* type: hashmapString* for a string type, hashmapBinary* for a binary
\* comparable type, and no call for an unsupported type.
C4_SamePath ==
    (op \in MapOps /\ panic = "") =>
        IF Classify(keyType) = "Unsupported" THEN emitted = <<>>
        ELSE /\ Len(emitted) = 1
             /\ emitted[1].fn = "runtime.hashmap" \o Classify(keyType) \o OpSuffix(op)

\* C5: an operation on an unsupported key type records exactly one
\* diagnostic, at the position of the operation and naming the key type,
\* emits no call, returns no value and lets the lowering continue.
C5_OneDiagnostic ==
    [][(op' \in MapOps /\ nops' = nops + 1 /\ Classify(keyType) = "Unsupported") =>
          /\ diagnostics' = Append(diagnostics,
                                   makeError(nops', UnsupportedKeyMsg(keyType)))
          /\ emitted' = <<>>
          /\ panic' = ""
          /\ ret' = [value |-> NoValue, err |-> NoError]]_vars

\* C6: no temporary is live when a map operation has returned.
C6_NoLeak ==
    (op \in MapOps /\ panic = "") => live = {}

(***************************************************************************)
(* hashmapTopHash.  A uint32 is kept as its two 16-bit halves, hi and lo:  *)
(* its value is hi * 2^16 + lo.                                            *)
(***************************************************************************)
Half == 65536
Byte == 256

\* Every top byte, with the bits below it all clear or all set.
HashInputs ==
    { [hi |-> b * Byte + r, lo |-> l] :
        b \in 0..(Byte - 1), r \in {0, Byte - 1}, l \in {0, Half - 1} }

\* uint8(hash >> 24)
ShiftRight24(h) == (h.hi \div Byte) % Byte

\* Mutant: the top byte is returned as it is.
hashmapTopHash_raw(h) == ShiftRight24(h)

hashmapTopHash(h) ==
    LET th == ShiftRight24(h)
    IN IF th < 1 THEN (th + 1) % Byte ELSE th

InitHash ==
    /\ hash \in HashInputs
    /\ tophash = 0
    /\ op = "init"
    /\ panic = ""
    /\ IdleLower /\ IdleEmit /\ IdleMap /\ IdleErr

HashmapTopHash ==
    /\ op = "init"
    /\ op' = "hashmapTopHash"
    /\ tophash' = hashmapTopHash(hash)
    /\ UNCHANGED <<panic, hash, lowerVars, emitVars, mapVars, errVars>>

NextHash == HashmapTopHash

SpecHash == InitHash /\ [][NextHash]_vars

\* The top 8 bits of the hash: the hash divided by 2^24.
TopBits(h) == h.hi \div Byte

MaxErrs == 3

\* An error value: its dynamic type, and the fields of that type.
Diagnostic(pos, msg) == [dyn |-> "Diagnostic", Errs |-> <<>>, pos |-> pos, msg |-> msg]
MultiError(es) == [dyn |-> "MultiError", Errs |-> es, pos |-> 0, msg |-> ""]

\* The diagnostics a unit can produce.
ErrPool ==
    { Diagnostic(p, m) : p \in {1, 2}, m \in {"unsupported map key", "todo"} }

\* Mutant: a single error is wrapped as well.
newMultiError_wrapOne(es) ==
    IF Len(es) > 0 THEN [panic |-> "", err |-> MultiError(es)]
    ELSE [panic |-> "index out of range", err |-> NilError]

newMultiError(es) ==
    IF Len(es) > 1 THEN [panic |-> "", err |-> MultiError(es)]
    ELSE IF Len(es) = 0 THEN [panic |-> "index out of range", err |-> NilError]
    ELSE [panic |-> "", err |-> es[1]]

\* (*MultiError).Error
MultiError_Error(e) ==
    IF Len(e.Errs) = 0 THEN [panic |-> "index out of range", text |-> ""]
    ELSE [panic |-> "", text |-> e.Errs[1].msg]

InitErr ==
    /\ errs \in SeqsUpTo(ErrPool, MaxErrs)
    /\ result = NilError
    /\ text = ""
    /\ op = "init"
    /\ panic = ""
    /\ IdleLower /\ IdleEmit /\ IdleMap /\ IdleHash

NewMultiError ==
    /\ op = "init"
    /\ LET r == newMultiError(errs)
       IN panic' = r.panic /\ result' = r.err
    /\ op' = "newMultiError"
    /\ UNCHANGED <<errs, text, lowerVars, emitVars, mapVars, hashVars>>

ErrorText ==
    /\ op = "newMultiError"
    /\ panic = ""
    /\ result.dyn = "MultiError"
    /\ LET r == MultiError_Error(result)
       IN panic' = r.panic /\ text' = r.text
    /\ op' = "Error"
    /\ UNCHANGED <<errs, result, lowerVars, emitVars, mapVars, hashVars>>

NextErr == NewMultiError \/ ErrorText

SpecErr == InitErr /\ [][NextErr]_vars

\* C9: one error is returned as it is, several as a MultiError holding them
\* in order whose text is the text of the first, so that a MultiError never
\* holds fewer than two errors; no error at all is a panic.
C9_MultiError ==
    op \in {"newMultiError", "Error"} =>
        /\ (Len(errs) = 0 => panic # "" /\ result = NilError)
        /\ (Len(errs) = 1 => panic = "" /\ result = errs[1])
        /\ (Len(errs) > 1 => panic = "" /\ result = MultiError(errs))
        /\ (result.dyn = "MultiError" => Len(result.Errs) >= 2)
        /\ (op = "Error" => text = errs[1].msg)

\* C9 witness: three errors, the first unlike the second, were wrapped and
\* the text asked for.
C9_Witness ==
    /\ op = "Error"
    /\ Len(errs) = 3
    /\ errs[1].msg # errs[2].msg
    /\ result.Errs = errs
    /\ text = errs[1].msg

=============================================================================
